---- MODULE Spec2Model ----
(***************************************************************************)
(* Generation gateway of GraphRAG-Pattern: the two servers that front a    *)
(* local Ollama backend.                                                   *)
(*   "mcp"    = src/mcp-servers/generation-server/server.py (tool-style)   *)
(*   "simple" = src/simple_generation_server.py (direct HTTP transport)    *)
(* Each server owns one OllamaClient.  A handler runs up to its single     *)
(* await on the backend, is suspended, and is resumed with the reply.      *)
(*                                                                         *)
(* Data conventions                                                        *)
(*   text          a sequence of string chunks, <<>> is the empty string   *)
(*   Optional[x]   None == <<>>, Some(x) == <<x>>                          *)
(*   dict / JSON   a function whose DOMAIN is the set of keys present      *)
(*   temperature   in tenths (7 stands for 0.7)                            *)
(***************************************************************************)
EXTENDS Integers, Sequences, FiniteSets, TLC

\* ------------------------------------------------------------------------
\* Python values
\* ------------------------------------------------------------------------
None == <<>>

Some(x) == <<x>>

EmptyDict == <<>>

\* dict.get(key, default)
Get(d, key, default) == IF key \in DOMAIN d THEN d[key] ELSE default

\* dict.get(key): None when the key is missing
GetOpt(d, key) == IF key \in DOMAIN d THEN Some(d[key]) ELSE None

\* truth value of an Optional[str]: None and "" are falsy
TruthyStr(o) == o # None /\ Len(o[1]) > 0

\* truth value of an Optional[int]: None and 0 are falsy
TruthyInt(o) == o # None /\ o[1] # 0

\* ------------------------------------------------------------------------
\* Program constants
\* ------------------------------------------------------------------------
DefaultModel == <<"llama3.2:latest">>

DefaultTemperature == 7

Servers == {"mcp", "simple"}

\* ------------------------------------------------------------------------
\* Bounds and input domains
\* ------------------------------------------------------------------------
\* largest max_tokens value a caller supplies
MaxTokens == 1

\* longest chat message list a caller supplies
MaxMsgs == 1

Prompts == {<<>>, <<"q", "?">>}

Contexts == {<<>>, <<"k", "g">>}

SystemPrompts == {<<>>, <<"s">>}

Temperatures == {0}

Models == {<<"m">>}

\* integers a caller may give as max_tokens: negative, zero, positive
TokenValues == (-1)..MaxTokens

\* the optional fields of a generate_text / chat_completion request
KnobDicts ==
  {EmptyDict}
    \cup {[max_tokens |-> n] : n \in TokenValues}
    \cup {[max_tokens |-> n, temperature |-> t, model |-> m] :
            n \in TokenValues, t \in Temperatures, m \in Models}

SystemDicts == {EmptyDict} \cup {[system_prompt |-> s] : s \in SystemPrompts}

ContextDicts == {EmptyDict} \cup {[context |-> c] : c \in Contexts}

PromptDicts == {EmptyDict} \cup {[prompt |-> p] : p \in Prompts}

\* arguments of generate_text (tool) and JSON bodies of POST /generate
GenerateArgs ==
  {p @@ c @@ s : p \in PromptDicts, c \in ContextDicts, s \in SystemDicts}
    \cup {[prompt |-> <<"q", "?">>] @@ k : k \in KnobDicts}

Msg(r, c) == [role |-> r, content |-> c]

Roles == {<<"system">>, <<"user">>, <<"assistant">>, <<"tool">>}

Contents == {<<>>, <<"hi">>}

Messages == {Msg(r, c) : r \in Roles, c \in Contents}

RECURSIVE SeqsUpTo(_, _)
SeqsUpTo(S, n) ==
  IF n = 0 THEN {<<>>}
  ELSE LET shorter == SeqsUpTo(S, n - 1)
       IN  shorter \cup {Append(q, x) : q \in {r \in shorter : Len(r) = n - 1}, x \in S}

MessageLists ==
  SeqsUpTo(Messages, MaxMsgs)
    \cup {<<Msg(<<"system">>, <<"be brief">>), Msg(<<"user">>, <<"hi">>)>>,
          <<Msg(<<"user">>, <<"hi">>), Msg(<<"system">>, <<"be brief">>)>>}

\* arguments of chat_completion (tool) and JSON bodies of POST /chat
ChatArgs ==
  {EmptyDict} \cup {[messages |-> ms] : ms \in MessageLists}
              \cup {[messages |-> <<Msg(<<"user">>, <<"hi">>)>>] @@ k : k \in KnobDicts}
              \cup {[messages |-> <<Msg(<<"system">>, <<"be brief">>),
                                     Msg(<<"user">>, <<"hi">>)>>,
                      max_tokens |-> MaxTokens]}

\* ------------------------------------------------------------------------
\* The Ollama backend as seen over HTTP
\* ------------------------------------------------------------------------
BackendModes == {"ok", "refused", "timeout", "http500", "tags500", "garbled"}

ModelA == [name |-> <<"llama3.2:latest">>, size |-> 2]

ModelB == [size |-> 1]

ModelLists == {<<>>, <<ModelA, ModelB>>}

ReplyTexts == {<<"Graphs represent entities as nodes.">>, <<>>}

\* JSON bodies the backend may give to POST /api/generate
GenerateReplies ==
  {EmptyDict}
    \cup {[response |-> t] : t \in ReplyTexts}
    \cup {[response |-> <<"ok">>, eval_count |-> 3, eval_duration |-> 2000000]}
    \cup {[response |-> <<"ok">>, eval_count |-> 5, eval_duration |-> 1234567]}

\* JSON bodies the backend may give to POST /api/chat
ChatReplies ==
  {EmptyDict, [message |-> EmptyDict]}
    \cup {[message |-> Msg(<<"assistant">>, t)] : t \in ReplyTexts}
    \cup {[message |-> Msg(<<"assistant">>, <<"ok">>), eval_count |-> 3,
           eval_duration |-> 2000000]}
    \cup {[message |-> Msg(<<"assistant">>, <<"ok">>), eval_count |-> 5,
           eval_duration |-> 1234567]}

Exc(type, msg) == [type |-> type, msg |-> msg]

\* str(e)
str(e) == e.msg

\* outcome of client.get / client.post: an exception, or a response
Failed(e) == [exc |-> Some(e), status |-> 0, body |-> None]

Response(status, body) == [exc |-> None, status |-> status, body |-> body]

JsonBodies(path, models) ==
  CASE path = "/api/version"  -> {[version |-> <<"0.5.1">>]}
    [] path = "/api/tags"     -> {[models |-> models]}
    [] path = "/api/generate" -> GenerateReplies
    [] path = "/api/chat"     -> ChatReplies

\* what the backend, in mode `mode` and holding `models`, can answer on path
Respond(mode, models, path) ==
  CASE mode = "refused" -> {Failed(Exc("ConnectError", <<"All connection attempts failed">>))}
    [] mode = "timeout" -> {Failed(Exc("ReadTimeout", <<"timed out">>))}
    [] mode = "http500" -> {Response(500, Some([error |-> <<"boom">>]))}
    [] mode = "garbled" -> {Response(200, None)}
    [] mode = "tags500" ->
         IF path = "/api/tags" THEN {Response(500, Some([error |-> <<"boom">>]))}
         ELSE {Response(200, Some(b)) : b \in JsonBodies(path, models)}
    [] mode = "ok" -> {Response(200, Some(b)) : b \in JsonBodies(path, models)}

\* the backend call did not produce a usable answer: no connection, a
\* timeout, a non-success status, or a body that is not JSON
BackendCallFailed(r) == r.exc # None \/ r.status # 200 \/ r.body = None

Request(method, path, body) == [method |-> method, path |-> path, body |-> body]

\* ------------------------------------------------------------------------
\* Outcome of a Python call: a returned value or a raised exception
\* ------------------------------------------------------------------------
Ret(v) == [raised |-> FALSE, val |-> v]

Raise(e) == [raised |-> TRUE, val |-> e]

\* response.raise_for_status(); response.json()  -- applied to an outcome
\* of client.get / client.post
json_of(r) ==
  IF r.exc # None THEN Raise(r.exc[1])
  ELSE IF r.status >= 400
         THEN Raise(Exc("HTTPStatusError", <<"Server error '500 Internal Server Error'">>))
  ELSE IF r.body = None
         THEN Raise(Exc("JSONDecodeError", <<"Expecting value: line 1 column 1 (char 0)">>))
  ELSE Ret(r.body[1])

\* ------------------------------------------------------------------------
\* OllamaClient of the tool-style server (mcp-servers/generation-server)
\* ------------------------------------------------------------------------
\* mutant: the template is applied whether or not a context was given
mcp_generate_payload_always_framed(prompt, model, system, context, temperature, max_tokens) ==
  LET full_prompt ==
        <<"Context:\n">> \o (IF context = None THEN <<>> ELSE context[1])
          \o <<"\n\nQuestion: ">> \o prompt
      options == IF TruthyInt(max_tokens)
                   THEN [temperature |-> temperature, num_predict |-> max_tokens[1]]
                   ELSE [temperature |-> temperature]
      payload == [model |-> model, prompt |-> full_prompt, stream |-> FALSE,
                  options |-> options]
  IN  IF TruthyStr(system) THEN payload @@ [system |-> system[1]] ELSE payload

\* mutant: the system instruction is put in front of the prompt text
mcp_generate_payload_system_in_prompt(prompt, model, system, context, temperature, max_tokens) ==
  LET full_prompt ==
        IF TruthyStr(context)
          THEN <<"Context:\n">> \o context[1] \o <<"\n\nQuestion: ">> \o prompt
          ELSE prompt
      options == IF TruthyInt(max_tokens)
                   THEN [temperature |-> temperature, num_predict |-> max_tokens[1]]
                   ELSE [temperature |-> temperature]
  IN  [model |-> model,
       prompt |-> IF TruthyStr(system) THEN system[1] \o <<"\n\n">> \o full_prompt
                  ELSE full_prompt,
       stream |-> FALSE, options |-> options]

\* generate(): the payload handed to client.post(".../api/generate")
mcp_generate_payload(prompt, model, system, context, temperature, max_tokens) ==
  LET full_prompt ==
        IF TruthyStr(context)
          THEN <<"Context:\n">> \o context[1] \o <<"\n\nQuestion: ">> \o prompt
          ELSE prompt
      options == IF TruthyInt(max_tokens)
                   THEN [temperature |-> temperature, num_predict |-> max_tokens[1]]
                   ELSE [temperature |-> temperature]
      payload == [model |-> model, prompt |-> full_prompt, stream |-> FALSE,
                  options |-> options]
  IN  IF TruthyStr(system) THEN payload @@ [system |-> system[1]] ELSE payload

\* mutant: the reply is read under the key "text"
mcp_generate_return_wrong_key(r) ==
  LET result == json_of(r)
  IN  IF result.raised THEN result ELSE Ret(Get(result.val, "text", <<>>))

\* generate(): from the outcome of client.post to the return / raise
mcp_generate_return(r) ==
  LET result == json_of(r)
  IN  IF result.raised THEN result ELSE Ret(Get(result.val, "response", <<>>))

\* chat(): the payload handed to client.post(".../api/chat")
mcp_chat_payload(messages, model, temperature, max_tokens) ==
  LET options == IF TruthyInt(max_tokens)
                   THEN [temperature |-> temperature, num_predict |-> max_tokens[1]]
                   ELSE [temperature |-> temperature]
  IN  [model |-> model, messages |-> messages, stream |-> FALSE, options |-> options]

\* chat(): from the outcome of client.post to the return / raise
mcp_chat_return(r) ==
  LET result == json_of(r)
  IN  IF result.raised THEN result
      ELSE Ret(Get(Get(result.val, "message", EmptyDict), "content", <<>>))

\* mutant: the client answers from a list it fetched once, when the backend
\* held both models, and leaves the backend's answer aside
mcp_client_list_models_return_cached(r) == Ret(<<ModelA, ModelB>>)

\* list_models(): every exception is logged and turned into []
mcp_client_list_models_return(r) ==
  LET data == json_of(r)
  IN  IF data.raised THEN Ret(<<>>) ELSE Ret(Get(data.val, "models", <<>>))

\* mutant: any answer of the backend counts as healthy
mcp_check_health_return_any_answer(r) ==
  IF r.exc # None THEN Ret(FALSE) ELSE Ret(TRUE)

\* check_health(): status_code == 200, False on any exception
mcp_check_health_return(r) ==
  IF r.exc # None THEN Ret(FALSE) ELSE Ret(r.status = 200)

\* ------------------------------------------------------------------------
\* OllamaClient of the direct server (simple_generation_server.py)
\* ------------------------------------------------------------------------
\* mutant: the question is put before the context
simple_generate_payload_question_first(prompt, model, system, context, temperature, max_tokens) ==
  LET full_prompt ==
        IF TruthyStr(context)
          THEN <<"Question: ">> \o prompt \o <<"\n\nContext:\n">> \o context[1]
          ELSE prompt
      options == IF TruthyInt(max_tokens)
                   THEN [temperature |-> temperature, num_predict |-> max_tokens[1]]
                   ELSE [temperature |-> temperature]
      payload == [model |-> model, prompt |-> full_prompt, stream |-> FALSE,
                  options |-> options]
  IN  IF TruthyStr(system) THEN payload @@ [system |-> system[1]] ELSE payload

simple_generate_payload(prompt, model, system, context, temperature, max_tokens) ==
  LET full_prompt ==
        IF TruthyStr(context)
          THEN <<"Context:\n">> \o context[1] \o <<"\n\nQuestion: ">> \o prompt
          ELSE prompt
      options == IF TruthyInt(max_tokens)
                   THEN [temperature |-> temperature, num_predict |-> max_tokens[1]]
                   ELSE [temperature |-> temperature]
      payload == [model |-> model, prompt |-> full_prompt, stream |-> FALSE,
                  options |-> options]
  IN  IF TruthyStr(system) THEN payload @@ [system |-> system[1]] ELSE payload

\* generate(): returns response.json() whole, re-raises any exception
simple_generate_return(r) == json_of(r)

\* mutant: max_tokens is not forwarded
simple_chat_payload_no_limit(messages, model, temperature, max_tokens) ==
  [model |-> model, messages |-> messages, stream |-> FALSE,
   options |-> [temperature |-> temperature]]

simple_chat_payload(messages, model, temperature, max_tokens) ==
  LET options == IF TruthyInt(max_tokens)
                   THEN [temperature |-> temperature, num_predict |-> max_tokens[1]]
                   ELSE [temperature |-> temperature]
  IN  [model |-> model, messages |-> messages, stream |-> FALSE, options |-> options]

\* chat(): returns response.json() whole, re-raises any exception
simple_chat_return(r) == json_of(r)

\* list_models(): returns response.json() whole; the except clause logs
\* and re-raises
simple_client_list_models_return(r) == json_of(r)

\* check_health(): status_code == 200, False on any exception
simple_check_health_return(r) ==
  IF r.exc # None THEN Ret(FALSE) ELSE Ret(r.status = 200)

\* ------------------------------------------------------------------------
\* What a handler hands back to its transport
\* ------------------------------------------------------------------------
\* [TextContent(type="text", text=...)]
TextContent(text) == [kind |-> "text", status |-> 0, val |-> text]

\* a str / TextContent holding json.dumps(d)
JsonText(d) == [kind |-> "json", status |-> 0, val |-> d]

\* the handler raised e
Raised(e) == [kind |-> "raise", status |-> 0, val |-> e]

\* a FastAPI handler returned the dict `body`
HttpOk(body) == [kind |-> "http", status |-> 200, val |-> body]

HTTPException(status_code, detail) ==
  [kind |-> "http", status |-> status_code, val |-> [detail |-> detail]]

\* a handler step: suspended on a backend request, or finished
Await(req) == [await |-> TRUE, req |-> req, result |-> None]

Finish(result) == [await |-> FALSE, req |-> None, result |-> Some(result)]

\* mutant: nanoseconds are divided by 1e3
DivMillion_by_thousand(ns) == [ms |-> ns \div 1000, frac |-> ns % 1000]

\* eval_duration / 1e6, kept exact: whole milliseconds and the remaining
\* nanoseconds (millionths of a millisecond)
DivMillion(ns) == [ms |-> ns \div 1000000, frac |-> ns % 1000000]

\* ------------------------------------------------------------------------
\* Tool-style server: handle_call_tool, handle_read_resource
\* ------------------------------------------------------------------------
ToolNames == {"generate_text", "chat_completion", "list_models", "delete_model"}

ResourceUris == {"generation://models", "generation://health", "generation://config"}

\* mutant: an unknown tool name is answered like a backend failure, with a
\* text result
mcp_handle_call_tool_begin_unknown_as_text(name, arguments) ==
  CASE name = "generate_text" ->
         Await(Request("POST", "/api/generate",
           mcp_generate_payload(Get(arguments, "prompt", <<>>),
                                Get(arguments, "model", DefaultModel),
                                GetOpt(arguments, "system_prompt"),
                                GetOpt(arguments, "context"),
                                Get(arguments, "temperature", DefaultTemperature),
                                GetOpt(arguments, "max_tokens"))))
    [] name = "chat_completion" ->
         Await(Request("POST", "/api/chat",
           mcp_chat_payload(Get(arguments, "messages", <<>>),
                            Get(arguments, "model", DefaultModel),
                            Get(arguments, "temperature", DefaultTemperature),
                            GetOpt(arguments, "max_tokens"))))
    [] name = "list_models" -> Await(Request("GET", "/api/tags", EmptyDict))
    [] OTHER -> Finish(TextContent(<<"Unknown tool: ", name>>))

\* handle_call_tool up to its await
mcp_handle_call_tool_begin(name, arguments) ==
  CASE name = "generate_text" ->
         Await(Request("POST", "/api/generate",
           mcp_generate_payload(Get(arguments, "prompt", <<>>),
                                Get(arguments, "model", DefaultModel),
                                GetOpt(arguments, "system_prompt"),
                                GetOpt(arguments, "context"),
                                Get(arguments, "temperature", DefaultTemperature),
                                GetOpt(arguments, "max_tokens"))))
    [] name = "chat_completion" ->
         Await(Request("POST", "/api/chat",
           mcp_chat_payload(Get(arguments, "messages", <<>>),
                            Get(arguments, "model", DefaultModel),
                            Get(arguments, "temperature", DefaultTemperature),
                            GetOpt(arguments, "max_tokens"))))
    [] name = "list_models" -> Await(Request("GET", "/api/tags", EmptyDict))
    [] OTHER -> Finish(Raised(Exc("ValueError", <<"Unknown tool: ", name>>)))

\* handle_call_tool from the backend's answer r to its return
mcp_handle_call_tool_end(name, arguments, r) ==
  CASE name = "generate_text" ->
         LET result == mcp_generate_return(r)
         IN  IF result.raised
               THEN TextContent(<<"Generation failed: ">> \o str(result.val))
               ELSE TextContent(result.val)
    [] name = "chat_completion" ->
         LET result == mcp_chat_return(r)
         IN  IF result.raised
               THEN TextContent(<<"Chat completion failed: ">> \o str(result.val))
               ELSE TextContent(result.val)
    [] name = "list_models" ->
         LET models     == mcp_client_list_models_return(r).val
             model_list == [i \in 1..Len(models) |-> Get(models[i], "name", <<"unknown">>)]
         IN  JsonText([available_models |-> model_list, count |-> Len(model_list)])

mcp_handle_read_resource_begin(uri) ==
  CASE uri = "generation://models" -> Await(Request("GET", "/api/tags", EmptyDict))
    [] uri = "generation://health" -> Await(Request("GET", "/api/version", EmptyDict))
    [] OTHER -> Finish(Raised(Exc("ValueError", <<"Unknown resource: ", uri>>)))

mcp_handle_read_resource_end(uri, r) ==
  CASE uri = "generation://models" ->
         JsonText([models |-> mcp_client_list_models_return(r).val])
    [] uri = "generation://health" ->
         JsonText([healthy |-> mcp_check_health_return(r).val, service |-> <<"ollama">>])

\* ------------------------------------------------------------------------
\* Direct server: request models and endpoints
\* ------------------------------------------------------------------------
\* pydantic: GenerateRequest has one required field, prompt: str
GenerateRequestValid(body) == "prompt" \in DOMAIN body

GenerateRequest(body) ==
  [prompt        |-> body.prompt,
   model         |-> Get(body, "model", DefaultModel),
   temperature   |-> Get(body, "temperature", DefaultTemperature),
   max_tokens    |-> GetOpt(body, "max_tokens"),
   context       |-> GetOpt(body, "context"),
   system_prompt |-> GetOpt(body, "system_prompt")]

\* pydantic: ChatMessage needs role: str and content: str, any strings
ChatMessageValid(m) == {"role", "content"} \subseteq DOMAIN m

\* pydantic: ChatRequest has one required field, messages: List[ChatMessage]
ChatRequestValid(body) ==
  /\ "messages" \in DOMAIN body
  /\ \A i \in 1..Len(body.messages) : ChatMessageValid(body.messages[i])

ChatRequest(body) ==
  [messages    |-> body.messages,
   model       |-> Get(body, "model", DefaultModel),
   temperature |-> Get(body, "temperature", DefaultTemperature),
   max_tokens  |-> GetOpt(body, "max_tokens")]

ValidationError == HTTPException(422, <<"Field required">>)

\* POST /generate up to its await
simple_generate_text_begin(body) ==
  IF ~GenerateRequestValid(body) THEN Finish(ValidationError)
  ELSE LET request == GenerateRequest(body)
       IN  Await(Request("POST", "/api/generate",
             simple_generate_payload(request.prompt, request.model,
                                     request.system_prompt, request.context,
                                     request.temperature, request.max_tokens)))

\* POST /generate from the backend's answer r to its response
simple_generate_text_end(body, r) ==
  LET request == GenerateRequest(body)
      result  == simple_generate_return(r)
  IN  IF result.raised
        THEN HTTPException(500, <<"Generation failed: ">> \o str(result.val))
        ELSE HttpOk([text             |-> Get(result.val, "response", <<>>),
                     model            |-> request.model,
                     eval_count       |-> Get(result.val, "eval_count", 0),
                     eval_duration_ms |-> DivMillion(Get(result.val, "eval_duration", 0))])

\* mutant: the converted message list comes out newest first
simple_chat_completion_begin_reversed(body) ==
  IF ~ChatRequestValid(body) THEN Finish(ValidationError)
  ELSE LET request  == ChatRequest(body)
           n        == Len(request.messages)
           messages == [i \in 1..n |->
                          [role    |-> request.messages[n + 1 - i].role,
                           content |-> request.messages[n + 1 - i].content]]
       IN  Await(Request("POST", "/api/chat",
             simple_chat_payload(messages, request.model, request.temperature,
                                 request.max_tokens)))

\* POST /chat up to its await
simple_chat_completion_begin(body) ==
  IF ~ChatRequestValid(body) THEN Finish(ValidationError)
  ELSE LET request  == ChatRequest(body)
           messages == [i \in 1..Len(request.messages) |->
                          [role    |-> request.messages[i].role,
                           content |-> request.messages[i].content]]
       IN  Await(Request("POST", "/api/chat",
             simple_chat_payload(messages, request.model, request.temperature,
                                 request.max_tokens)))

\* mutant: a failed backend call is answered as an empty success
simple_chat_completion_end_swallow(body, r) ==
  LET request == ChatRequest(body)
      result  == simple_chat_return(r)
  IN  HttpOk([message          |-> IF result.raised THEN EmptyDict
                                   ELSE Get(result.val, "message", EmptyDict),
              model            |-> request.model,
              eval_count       |-> 0,
              eval_duration_ms |-> DivMillion(0)])

\* POST /chat from the backend's answer r to its response
simple_chat_completion_end(body, r) ==
  LET request == ChatRequest(body)
      result  == simple_chat_return(r)
  IN  IF result.raised
        THEN HTTPException(500, <<"Chat completion failed: ">> \o str(result.val))
        ELSE HttpOk([message          |-> Get(result.val, "message", EmptyDict),
                     model            |-> request.model,
                     eval_count       |-> Get(result.val, "eval_count", 0),
                     eval_duration_ms |-> DivMillion(Get(result.val, "eval_duration", 0))])

\* GET /models from the backend's answer r to its response
simple_list_models_end(r) ==
  LET models_response == simple_client_list_models_return(r)
  IN  IF models_response.raised
        THEN HTTPException(500, <<"Failed to list models: ">> \o str(models_response.val))
        ELSE LET models == Get(models_response.val, "models", <<>>)
             IN  HttpOk([models |-> [i \in 1..Len(models) |-> GetOpt(models[i], "name")],
                         count  |-> Len(models)])

\* GET /health from the backend's answer r to its response
simple_health_check_end(r) ==
  LET ollama_healthy == simple_check_health_return(r).val
  IN  HttpOk([status |-> IF ollama_healthy THEN <<"healthy">> ELSE <<"unhealthy">>,
              ollama_connected |-> ollama_healthy])

\* GET /
simple_root_result ==
  HttpOk([service |-> <<"GraphRAG Generation Server">>, status |-> <<"running">>,
          ollama_url |-> <<"http://localhost:11434">>])

\* ------------------------------------------------------------------------
\* State
\* ------------------------------------------------------------------------
VARIABLES
  backend,   \* the Ollama process: [mode, models]
  phase,     \* per server: where its startup code stands, with its locals
  call,      \* per server: the handler invocation in progress, if any
  troubled,  \* per server (history): it has met an unhealthy or failing backend
  inflight   \* per server: the handler invocations suspended side by side

vars == <<backend, phase, call, troubled, inflight>>

IdleCall ==
  [pc |-> "idle", handler |-> "", name |-> "", args |-> EmptyDict,
   reqs |-> <<>>, reply |-> None, result |-> None]

Booting == [pc |-> "boot", health |-> FALSE, reqs |-> <<>>, log |-> <<>>]

Serving == [pc |-> "serving", health |-> FALSE, reqs |-> <<>>, log |-> <<>>]

\* most handler invocations one server has suspended at the same time
MaxInflight == 2

Slots == 1..MaxInflight

NoInflight == [s \in Servers |-> [t \in Slots |-> IdleCall]]

Init ==
  /\ backend \in [mode : BackendModes, models : ModelLists]
  /\ phase = [s \in Servers |-> Booting]
  /\ call = [s \in Servers |-> IdleCall]
  /\ troubled = [s \in Servers |-> FALSE]
  /\ inflight = NoInflight

\* the logical operation behind a handler invocation, the same on both
\* transports
Kind(handler, name) ==
  CASE handler = "handle_call_tool" /\ name = "generate_text"   -> "generate"
    [] handler = "handle_call_tool" /\ name = "chat_completion" -> "chat"
    [] handler = "handle_call_tool" /\ name = "list_models"     -> "models"
    [] handler = "handle_read_resource" /\ name = "generation://models" -> "models"
    [] handler = "handle_read_resource" /\ name = "generation://health" -> "health"
    [] handler = "generate_text"   -> "generate"
    [] handler = "chat_completion" -> "chat"
    [] handler = "list_models"     -> "models"
    [] handler = "health_check"    -> "health"
    [] OTHER -> "other"

\* A server takes requests once it serves.  Callers come when the startup
\* of both servers is over; they take turns, or put the same request to
\* both servers.
CallerMayStart(s, handler, name, args) ==
  /\ phase[s].pc = "serving"
  /\ call[s].pc = "idle"
  /\ \A o \in Servers : phase[o].pc \in {"serving", "aborted"}
  /\ \A o \in Servers \ {s} :
       \/ call[o].pc = "idle"
       \/ /\ Kind(call[o].handler, call[o].name) = Kind(handler, name)
          /\ call[o].args = args

\* the invocation as it stands at its await, or at its end when it has none
Entered(handler, name, args, step) ==
  [pc      |-> IF step.await THEN "await" ELSE "done",
   handler |-> handler, name |-> name, args |-> args,
   reqs    |-> IF step.await THEN <<step.req>> ELSE <<>>,
   reply   |-> None,
   result  |-> step.result]

\* ------------------------------------------------------------------------
\* Startup of the tool-style server: main()
\* ------------------------------------------------------------------------
mcp_main_check_health ==
  /\ phase["mcp"].pc = "boot"
  /\ \E r \in Respond(backend.mode, backend.models, "/api/version") :
       /\ phase' = [phase EXCEPT !["mcp"] =
            [pc |-> "checked", health |-> mcp_check_health_return(r).val,
             reqs |-> <<Request("GET", "/api/version", EmptyDict)>>, log |-> <<>>]]
       /\ troubled' = [troubled EXCEPT !["mcp"] = ~mcp_check_health_return(r).val]
  /\ UNCHANGED <<backend, call, inflight>>

\* mutant: the model list is fetched whatever the health check said
mcp_main_probe_always_lists ==
  /\ phase["mcp"].pc = "checked"
  /\ \E r \in Respond(backend.mode, backend.models, "/api/tags") :
       LET models == mcp_client_list_models_return(r).val
       IN  phase' = [phase EXCEPT
             !["mcp"].pc = "probed",
             !["mcp"].reqs = Append(@, Request("GET", "/api/tags", EmptyDict)),
             !["mcp"].log = IF phase["mcp"].health
                              THEN <<[level |-> "info", count |-> Len(models)]>>
                              ELSE <<[level |-> "warning", count |-> 0]>>]
  /\ UNCHANGED <<backend, call, troubled, inflight>>

mcp_main_probe ==
  /\ phase["mcp"].pc = "checked"
  /\ IF ~phase["mcp"].health
       THEN phase' = [phase EXCEPT !["mcp"].pc = "probed",
                                   !["mcp"].log = <<[level |-> "warning", count |-> 0]>>]
       ELSE \E r \in Respond(backend.mode, backend.models, "/api/tags") :
              LET models == mcp_client_list_models_return(r).val
              IN  phase' = [phase EXCEPT
                    !["mcp"].pc = "probed",
                    !["mcp"].reqs = Append(@, Request("GET", "/api/tags", EmptyDict)),
                    !["mcp"].log = <<[level |-> "info", count |-> Len(models)]>>]
  /\ UNCHANGED <<backend, call, troubled, inflight>>

\* server.run(...): the probe's locals are gone, requests are served
mcp_main_run ==
  /\ phase["mcp"].pc = "probed"
  /\ phase' = [phase EXCEPT !["mcp"] = Serving]
  /\ UNCHANGED <<backend, call, troubled, inflight>>

\* ------------------------------------------------------------------------
\* Startup of the direct server: startup_event(), then uvicorn serves
\* ------------------------------------------------------------------------
simple_startup_check_health ==
  /\ phase["simple"].pc = "boot"
  /\ \E r \in Respond(backend.mode, backend.models, "/api/version") :
       /\ phase' = [phase EXCEPT !["simple"] =
            [pc |-> "checked", health |-> simple_check_health_return(r).val,
             reqs |-> <<Request("GET", "/api/version", EmptyDict)>>, log |-> <<>>]]
       /\ troubled' = [troubled EXCEPT !["simple"] = ~simple_check_health_return(r).val]
  /\ UNCHANGED <<backend, call, inflight>>

\* an exception leaving startup_event fails the application's startup
simple_startup_probe ==
  /\ phase["simple"].pc = "checked"
  /\ IF ~phase["simple"].health
       THEN phase' = [phase EXCEPT !["simple"].pc = "probed",
                                   !["simple"].log = <<[level |-> "warning", count |-> 0]>>]
       ELSE \E r \in Respond(backend.mode, backend.models, "/api/tags") :
              LET models == simple_client_list_models_return(r)
              IN  IF models.raised
                    THEN phase' = [phase EXCEPT
                           !["simple"].pc = "aborted",
                           !["simple"].reqs = Append(@, Request("GET", "/api/tags", EmptyDict))]
                    ELSE phase' = [phase EXCEPT
                           !["simple"].pc = "probed",
                           !["simple"].reqs = Append(@, Request("GET", "/api/tags", EmptyDict)),
                           !["simple"].log = <<[level |-> "info",
                                                count |-> Len(Get(models.val, "models", <<>>))]>>]
  /\ UNCHANGED <<backend, call, troubled, inflight>>

simple_serve ==
  /\ phase["simple"].pc = "probed"
  /\ phase' = [phase EXCEPT !["simple"] = Serving]
  /\ UNCHANGED <<backend, call, troubled, inflight>>

\* ------------------------------------------------------------------------
\* Handler invocations
\* ------------------------------------------------------------------------
mcp_handle_call_tool(name, arguments) ==
  /\ CallerMayStart("mcp", "handle_call_tool", name, arguments)
  /\ call' = [call EXCEPT !["mcp"] =
       Entered("handle_call_tool", name, arguments,
               mcp_handle_call_tool_begin(name, arguments))]
  /\ UNCHANGED <<backend, phase, troubled, inflight>>

mcp_handle_read_resource(uri) ==
  /\ CallerMayStart("mcp", "handle_read_resource", uri, EmptyDict)
  /\ call' = [call EXCEPT !["mcp"] =
       Entered("handle_read_resource", uri, EmptyDict,
               mcp_handle_read_resource_begin(uri))]
  /\ UNCHANGED <<backend, phase, troubled, inflight>>

simple_generate_text(body) ==
  /\ CallerMayStart("simple", "generate_text", "", body)
  /\ call' = [call EXCEPT !["simple"] =
       Entered("generate_text", "", body, simple_generate_text_begin(body))]
  /\ UNCHANGED <<backend, phase, troubled, inflight>>

simple_chat_completion(body) ==
  /\ CallerMayStart("simple", "chat_completion", "", body)
  /\ call' = [call EXCEPT !["simple"] =
       Entered("chat_completion", "", body, simple_chat_completion_begin(body))]
  /\ UNCHANGED <<backend, phase, troubled, inflight>>

simple_list_models ==
  /\ CallerMayStart("simple", "list_models", "", EmptyDict)
  /\ call' = [call EXCEPT !["simple"] =
       Entered("list_models", "", EmptyDict,
               Await(Request("GET", "/api/tags", EmptyDict)))]
  /\ UNCHANGED <<backend, phase, troubled, inflight>>

simple_health_check ==
  /\ CallerMayStart("simple", "health_check", "", EmptyDict)
  /\ call' = [call EXCEPT !["simple"] =
       Entered("health_check", "", EmptyDict,
               Await(Request("GET", "/api/version", EmptyDict)))]
  /\ UNCHANGED <<backend, phase, troubled, inflight>>

simple_root ==
  /\ CallerMayStart("simple", "root", "", EmptyDict)
  /\ call' = [call EXCEPT !["simple"] =
       Entered("root", "", EmptyDict, Finish(simple_root_result))]
  /\ UNCHANGED <<backend, phase, troubled, inflight>>

\* the rest of the suspended handler, given the backend's answer r
HandlerEnd(c, r) ==
  CASE c.handler = "handle_call_tool"     -> mcp_handle_call_tool_end(c.name, c.args, r)
    [] c.handler = "handle_read_resource" -> mcp_handle_read_resource_end(c.name, r)
    [] c.handler = "generate_text"        -> simple_generate_text_end(c.args, r)
    [] c.handler = "chat_completion"      -> simple_chat_completion_end(c.args, r)
    [] c.handler = "list_models"          -> simple_list_models_end(r)
    [] c.handler = "health_check"         -> simple_health_check_end(r)

\* mutant: a failed request is sent once more
Resume_retry(s) ==
  /\ call[s].pc = "await"
  /\ \E r \in Respond(backend.mode, backend.models, call[s].reqs[Len(call[s].reqs)].path) :
       IF BackendCallFailed(r) /\ Len(call[s].reqs) < 2
         THEN call' = [call EXCEPT ![s].reqs = Append(@, @[Len(@)])]
         ELSE call' = [call EXCEPT ![s].pc = "done",
                                   ![s].reply = Some(r),
                                   ![s].result = Some(HandlerEnd(call[s], r))]
  /\ UNCHANGED <<backend, phase, troubled, inflight>>

\* mutant: once a backend call has failed the client stays "down" and
\* answers later calls from that memory
Resume_sticky_failure(s) ==
  /\ call[s].pc = "await"
  /\ \E r \in Respond(backend.mode, backend.models, call[s].reqs[Len(call[s].reqs)].path) :
       LET seen == IF troubled[s]
                     THEN Failed(Exc("ConnectError", <<"All connection attempts failed">>))
                     ELSE r
       IN  /\ call' = [call EXCEPT ![s].pc = "done",
                                   ![s].reply = Some(r),
                                   ![s].result = Some(HandlerEnd(call[s], seen))]
           /\ troubled' = [troubled EXCEPT ![s] = @ \/ BackendCallFailed(r)]
  /\ UNCHANGED <<backend, phase, inflight>>

\* the backend answers the pending request and the handler runs to its end
Resume(s) ==
  /\ call[s].pc = "await"
  /\ \E r \in Respond(backend.mode, backend.models, call[s].reqs[Len(call[s].reqs)].path) :
       /\ call' = [call EXCEPT ![s].pc = "done",
                               ![s].reply = Some(r),
                               ![s].result = Some(HandlerEnd(call[s], r))]
       /\ troubled' = [troubled EXCEPT ![s] = @ \/ BackendCallFailed(r)]
  /\ UNCHANGED <<backend, phase, inflight>>

\* the transport delivers the outcome to the caller
Deliver(s) ==
  /\ call[s].pc = "done"
  /\ call' = [call EXCEPT ![s] = IdleCall]
  /\ UNCHANGED <<backend, phase, troubled, inflight>>

\* the backend goes down, comes back, changes its model inventory; a server
\* sees the backend only through a request it makes, so the changes are
\* taken where a request is about to be answered
BackendChange ==
  /\ \E s \in Servers : call[s].pc = "await" \/ phase[s].pc \in {"boot", "checked"}
  /\ \E b \in [mode : BackendModes, models : ModelLists] :
       b # backend /\ backend' = b
  /\ UNCHANGED <<phase, call, troubled, inflight>>

Next ==
  \/ mcp_main_check_health
  \/ mcp_main_probe
  \/ mcp_main_run
  \/ simple_startup_check_health
  \/ simple_startup_probe
  \/ simple_serve
  \/ \E name \in ToolNames :
       \E arguments \in (CASE name = "generate_text"   -> GenerateArgs
                           [] name = "chat_completion" -> ChatArgs
                           [] OTHER                    -> {EmptyDict}) :
         mcp_handle_call_tool(name, arguments)
  \/ \E uri \in ResourceUris : mcp_handle_read_resource(uri)
  \/ \E body \in GenerateArgs : simple_generate_text(body)
  \/ \E body \in ChatArgs : simple_chat_completion(body)
  \/ simple_list_models
  \/ simple_health_check
  \/ simple_root
  \/ \E s \in Servers : Resume(s)
  \/ \E s \in Servers : Deliver(s)
  \/ BackendChange

Spec == Init /\ [][Next]_vars

\* ------------------------------------------------------------------------
\* Invocations side by side.  A handler is a coroutine: at its await the
\* event loop may enter further invocations of the same server, and the
\* backend answers the pending requests in any order.  The client object
\* the invocations share (base_url and the httpx.AsyncClient handle) is
\* assigned in __init__ only; payload, response and result are locals of
\* each invocation, held here in the invocation's own slot.
\* ------------------------------------------------------------------------
ConcurrentToolNames == {"generate_text", "chat_completion"}

ConcurrentGenerateArgs ==
  {[prompt |-> <<"q", "?">>],
   [prompt |-> <<"q", "?">>, context |-> <<"k", "g">>]}

ConcurrentChatArgs == {[messages |-> <<Msg(<<"user">>, <<"hi">>)>>]}

ConcurrentInit ==
  /\ backend \in [mode : BackendModes, models : {<<>>}]
  /\ phase = [s \in Servers |-> Serving]
  /\ call = [s \in Servers |-> IdleCall]
  /\ troubled = [s \in Servers |-> FALSE]
  /\ inflight = NoInflight

\* a caller's request enters a free slot of server s; the callers of the
\* two servers are looked at one server at a time
SlotFree(s, t) ==
  /\ phase[s].pc = "serving"
  /\ inflight[s][t].pc = "idle"
  /\ \A o \in Servers \ {s} : \A u \in Slots : inflight[o][u].pc = "idle"

concurrent_mcp_handle_call_tool(t, name, arguments) ==
  /\ SlotFree("mcp", t)
  /\ inflight' = [inflight EXCEPT !["mcp"][t] =
       Entered("handle_call_tool", name, arguments,
               mcp_handle_call_tool_begin(name, arguments))]
  /\ UNCHANGED <<backend, phase, call, troubled>>

concurrent_simple_generate_text(t, body) ==
  /\ SlotFree("simple", t)
  /\ inflight' = [inflight EXCEPT !["simple"][t] =
       Entered("generate_text", "", body, simple_generate_text_begin(body))]
  /\ UNCHANGED <<backend, phase, call, troubled>>

concurrent_simple_chat_completion(t, body) ==
  /\ SlotFree("simple", t)
  /\ inflight' = [inflight EXCEPT !["simple"][t] =
       Entered("chat_completion", "", body, simple_chat_completion_begin(body))]
  /\ UNCHANGED <<backend, phase, call, troubled>>

\* mutant: the client keeps the response in an attribute of its own, and
\* an invocation that resumes reads what another one left there
ConcurrentResume_shared_response(s, t) ==
  /\ inflight[s][t].pc = "await"
  /\ \E r \in Respond(backend.mode, backend.models, inflight[s][t].reqs[1].path) :
       LET others == {u \in Slots \ {t} : inflight[s][u].pc = "done"}
           seen   == IF others = {} THEN r
                     ELSE inflight[s][CHOOSE u \in others : TRUE].reply[1]
       IN  inflight' = [inflight EXCEPT
             ![s][t].pc = "done",
             ![s][t].reply = Some(r),
             ![s][t].result = Some(HandlerEnd(inflight[s][t], seen))]
  /\ UNCHANGED <<backend, phase, call, troubled>>

\* the backend answers the request of slot t, whichever slot that is, and
\* that handler runs to its end
ConcurrentResume(s, t) ==
  /\ inflight[s][t].pc = "await"
  /\ \E r \in Respond(backend.mode, backend.models, inflight[s][t].reqs[1].path) :
       inflight' = [inflight EXCEPT
         ![s][t].pc = "done",
         ![s][t].reply = Some(r),
         ![s][t].result = Some(HandlerEnd(inflight[s][t], r))]
  /\ UNCHANGED <<backend, phase, call, troubled>>

ConcurrentDeliver(s, t) ==
  /\ inflight[s][t].pc = "done"
  /\ inflight' = [inflight EXCEPT ![s][t] = IdleCall]
  /\ UNCHANGED <<backend, phase, call, troubled>>

\* the backend goes down or comes back while requests are pending
ConcurrentBackendChange ==
  /\ \E s \in Servers : \E t \in Slots : inflight[s][t].pc = "await"
  /\ \E m \in BackendModes \ {backend.mode} : backend' = [backend EXCEPT !.mode = m]
  /\ UNCHANGED <<phase, call, troubled, inflight>>

ConcurrentNext ==
  \/ \E t \in Slots : \E name \in ConcurrentToolNames :
       \E arguments \in (IF name = "generate_text" THEN ConcurrentGenerateArgs
                         ELSE ConcurrentChatArgs) :
         concurrent_mcp_handle_call_tool(t, name, arguments)
  \/ \E t \in Slots : \E body \in ConcurrentGenerateArgs :
       concurrent_simple_generate_text(t, body)
  \/ \E t \in Slots : \E body \in ConcurrentChatArgs :
       concurrent_simple_chat_completion(t, body)
  \/ \E s \in Servers : \E t \in Slots : ConcurrentResume(s, t)
  \/ \E s \in Servers : \E t \in Slots : ConcurrentDeliver(s, t)
  \/ ConcurrentBackendChange

ConcurrentSpec == ConcurrentInit /\ [][ConcurrentNext]_vars

\* ------------------------------------------------------------------------
\* Vocabulary of the properties
\* ------------------------------------------------------------------------
KindOf(c) == Kind(c.handler, c.name)

Active(c) == c.pc \in {"await", "done"}

FailureLabel(kind) ==
  IF kind = "generate" THEN "Generation failed: " ELSE "Chat completion failed: "

\* C1: a generate call without a context field sends the caller's prompt,
\* unchanged, as the prompt of its one /api/generate request, on both
\* servers.
C1_PromptUnchangedWithoutContext ==
  \A s \in Servers :
    LET c == call[s]
    IN  (/\ Active(c)
         /\ KindOf(c) = "generate"
         /\ "prompt" \in DOMAIN c.args
         /\ "context" \notin DOMAIN c.args)
        => /\ Len(c.reqs) = 1
           /\ c.reqs[1].path = "/api/generate"
           /\ c.reqs[1].body.prompt = c.args.prompt

C1_Witness ==
  \A s \in Servers :
    /\ call[s].pc = "await"
    /\ KindOf(call[s]) = "generate"
    /\ DOMAIN call[s].args = {"prompt", "system_prompt"}
    /\ call[s].args.prompt = <<"q", "?">>
    /\ call[s].args.system_prompt = <<"s">>

\* C2: with a non-empty context C and prompt P the prompt sent is the
\* literal "Context:\n", then C, then the literal "\n\nQuestion: ", then P,
\* and nothing else, on both servers.
C2_TemplateLaw ==
  \A s \in Servers :
    LET c == call[s]
    IN  (/\ Active(c)
         /\ KindOf(c) = "generate"
         /\ "prompt" \in DOMAIN c.args
         /\ "context" \in DOMAIN c.args
         /\ Len(c.args.context) > 0)
        => LET C == c.args.context
               P == c.args.prompt
               t == c.reqs[1].body.prompt
           IN  /\ Len(c.reqs) = 1
               /\ Len(t) = Len(C) + Len(P) + 2
               /\ t[1] = "Context:\n"
               /\ SubSeq(t, 2, Len(C) + 1) = C
               /\ t[Len(C) + 2] = "\n\nQuestion: "
               /\ SubSeq(t, Len(C) + 3, Len(t)) = P

C2_Witness ==
  \A s \in Servers :
    /\ call[s].pc = "await"
    /\ KindOf(call[s]) = "generate"
    /\ "context" \in DOMAIN call[s].args
    /\ call[s].args.context = <<"k", "g">>
    /\ "prompt" \in DOMAIN call[s].args
    /\ call[s].args.prompt = <<"q", "?">>
    /\ call[s].reqs[1].body.prompt =
         <<"Context:\n", "k", "g", "\n\nQuestion: ", "q", "?">>

\* C3: a generate call without the prompt field, and a chat call without
\* the messages field, sends nothing to the backend, on both servers.
C3_MissingFieldNeverReachesBackend ==
  \A s \in Servers :
    LET c == call[s]
    IN  (/\ Active(c)
         /\ \/ KindOf(c) = "generate" /\ "prompt" \notin DOMAIN c.args
            \/ KindOf(c) = "chat" /\ "messages" \notin DOMAIN c.args)
        => c.reqs = <<>>

\* C4: a generate call with prompt "" and a chat call with messages []
\* sends nothing to the backend, on both servers.
C4_EmptyFieldNeverReachesBackend ==
  \A s \in Servers :
    LET c == call[s]
    IN  (/\ Active(c)
         /\ \/ /\ KindOf(c) = "generate"
               /\ "prompt" \in DOMAIN c.args
               /\ c.args.prompt = <<>>
            \/ /\ KindOf(c) = "chat"
               /\ "messages" \in DOMAIN c.args
               /\ c.args.messages = <<>>)
        => c.reqs = <<>>

\* C5: when the backend call of a generate or chat invocation fails, the
\* tool-style server returns a text result that is the failure label
\* followed by a non-empty reason and does not raise; the direct server
\* answers 500 with that same label and reason as detail; when the failure
\* is an exception of the HTTP client the reason is that exception's text.
C5_BackendFailureIsReported ==
  \A s \in Servers :
    LET c == call[s]
    IN  (/\ c.pc = "done"
         /\ KindOf(c) \in {"generate", "chat"}
         /\ c.reply # None
         /\ BackendCallFailed(c.reply[1]))
        => LET res  == c.result[1]
               text == IF s = "mcp" THEN res.val ELSE res.val.detail
           IN  /\ s = "mcp" => res.kind = "text"
               /\ s = "simple" => res.kind = "http" /\ res.status = 500
               /\ Len(text) >= 2
               /\ Head(text) = FailureLabel(KindOf(c))
               /\ c.reply[1].exc # None => Tail(text) = c.reply[1].exc[1].msg
               /\ \A o \in Servers :
                    (/\ call[o].pc = "done"
                     /\ KindOf(call[o]) = KindOf(c)
                     /\ call[o].reply = c.reply)
                    => (IF o = "mcp" THEN call[o].result[1].val
                        ELSE call[o].result[1].val.detail) = text

C5_Witness ==
  /\ \A s \in Servers :
       /\ call[s].pc = "done"
       /\ KindOf(call[s]) = "generate"
       /\ call[s].reply # None
       /\ call[s].reply[1].exc # None
       /\ call[s].reply[1].exc[1].type = "ConnectError"
  /\ call["mcp"].result[1].kind = "text"
  /\ call["simple"].result[1].status = 500

\* C6: whenever GET /api/tags fails, every model-discovery operation ends
\* without a failure and reports no models.
C6_ListModelsNeverFails ==
  \A s \in Servers :
    LET c == call[s]
    IN  (/\ c.pc = "done"
         /\ KindOf(c) = "models"
         /\ BackendCallFailed(c.reply[1]))
        => LET res == c.result[1]
           IN  /\ res.kind \in {"json", "http"}
               /\ res.kind = "http" => res.status = 200 /\ res.val.models = <<>>
               /\ res.kind = "json" =>
                    IF c.handler = "handle_call_tool"
                      THEN res.val.available_models = <<>>
                      ELSE res.val.models = <<>>

\* C7: a health operation never raises; it reports healthy only if the
\* backend answered /api/version with status 200, and reports unhealthy
\* after a network error, a timeout or a non-success status.
C7_HealthOnlyOnSuccess ==
  \A s \in Servers :
    LET c == call[s]
    IN  (c.pc = "done" /\ KindOf(c) = "health")
        => LET res     == c.result[1]
               r       == c.reply[1]
               healthy == IF s = "mcp" THEN res.val.healthy
                          ELSE res.val.ollama_connected
           IN  /\ res.kind # "raise"
               /\ res.kind = "http" => res.status = 200
               /\ c.reqs = <<Request("GET", "/api/version", EmptyDict)>>
               /\ healthy => r.exc = None /\ r.status = 200
               /\ (r.exc # None \/ r.status >= 400) => ~healthy

C7_Witness ==
  /\ call["mcp"].pc = "done"
  /\ call["mcp"].handler = "handle_read_resource"
  /\ KindOf(call["mcp"]) = "health"
  /\ call["mcp"].reply[1].status = 500
  /\ call["mcp"].result[1].val.healthy = FALSE

\* C8: when both servers have handled the same generate or chat request
\* (required field present) and the backend gave both the same successful
\* answer, they sent the same body to the same path, and the tool-style
\* text equals the direct server's text (generate) or the content of its
\* message (chat; a message without content carries the empty text).
C8_TransportEquivalence ==
  LET m == call["mcp"]
      d == call["simple"]
  IN  (/\ m.pc = "done"
       /\ d.pc = "done"
       /\ KindOf(m) \in {"generate", "chat"}
       /\ KindOf(d) = KindOf(m)
       /\ m.args = d.args
       /\ (IF KindOf(m) = "generate" THEN "prompt" ELSE "messages") \in DOMAIN m.args
       /\ m.reply = d.reply
       /\ ~BackendCallFailed(m.reply[1]))
      => /\ m.reqs = d.reqs
         /\ Len(m.reqs) = 1
         /\ m.result[1].kind = "text"
         /\ d.result[1].kind = "http"
         /\ d.result[1].status = 200
         /\ m.result[1].val =
              IF KindOf(m) = "generate" THEN d.result[1].val.text
              ELSE Get(d.result[1].val.message, "content", <<>>)

C8_Witness ==
  /\ call["mcp"].pc = "done"
  /\ call["simple"].pc = "done"
  /\ KindOf(call["mcp"]) = "chat"
  /\ KindOf(call["simple"]) = "chat"
  /\ call["mcp"].args = call["simple"].args
  /\ DOMAIN call["mcp"].args = {"messages", "max_tokens"}
  /\ Len(call["mcp"].args.messages) = 2
  /\ call["mcp"].reply = call["simple"].reply
  /\ ~BackendCallFailed(call["mcp"].reply[1])
  /\ call["mcp"].result[1].val = <<"Graphs represent entities as nodes.">>

\* C9: an invocation of generate, chat, model discovery or health sends at
\* most one request to the backend, also when that request failed.
C9_NoRetry ==
  \A s \in Servers : Len(call[s].reqs) <= 1

C9_Witness ==
  \E s \in Servers :
    /\ call[s].pc = "done"
    /\ KindOf(call[s]) = "generate"
    /\ call[s].reply # None
    /\ call[s].reply[1].exc # None
    /\ call[s].reply[1].exc[1].type = "ReadTimeout"
    /\ Len(call[s].reqs) = 1

\* C10: the startup probe never aborts startup, whatever the backend does
\* during the probe, on both servers.
C10_ProbeNeverAborts ==
  \A s \in Servers : phase[s].pc # "aborted"

\* the handler's outcome reports a failure of the backend call: the
\* tool-style text opens with the failure label, the direct server answers
\* with status 500
ReportsFailure(s, c) ==
  LET res == c.result[1]
  IN  IF s = "mcp"
        THEN /\ res.kind = "text"
             /\ Len(res.val) >= 1
             /\ Head(res.val) = FailureLabel(KindOf(c))
        ELSE res.kind = "http" /\ res.status = 500

\* the reason carried by a reported failure
ReportedReason(s, c) ==
  IF s = "mcp" THEN Tail(c.result[1].val) ELSE Tail(c.result[1].val.detail)

UnavailableReasons == {<<"All connection attempts failed">>, <<"timed out">>}

\* C11: generate and chat fail in one of two ways: as "unavailable" when
\* the connection fails or times out, as "backend error" when the backend
\* answers with a non-success status or a malformed payload; a reply with
\* status 200 that lacks the response text (generate) or the message (chat)
\* is reported as a failure.
C11_FailureTaxonomy ==
  \A s \in Servers :
    LET c == call[s]
        r == c.reply[1]
    IN  (c.pc = "done" /\ KindOf(c) \in {"generate", "chat"} /\ c.reply # None)
        => /\ r.exc # None
                => ReportsFailure(s, c) /\ ReportedReason(s, c) \in UnavailableReasons
           /\ (r.exc = None /\ (r.status >= 400 \/ r.body = None))
                => ReportsFailure(s, c) /\ ReportedReason(s, c) \notin UnavailableReasons
           /\ (/\ r.exc = None
               /\ r.status = 200
               /\ r.body # None
               /\ (IF KindOf(c) = "generate" THEN "response" ELSE "message")
                    \notin DOMAIN r.body[1])
                => ReportsFailure(s, c)

\* C12: the eval_duration_ms of a generate or chat response is the
\* backend's eval_duration divided by 1,000,000, exactly: whole
\* milliseconds and remainder add up to the nanoseconds; 2,000,000 ns gives
\* 2.0 and a reply without eval_duration gives 0.
C12_DurationInMilliseconds ==
  LET c == call["simple"]
  IN  (/\ c.pc = "done"
       /\ KindOf(c) \in {"generate", "chat"}
       /\ c.reply # None
       /\ ~BackendCallFailed(c.reply[1]))
      => LET reply == c.reply[1].body[1]
             ms    == c.result[1].val.eval_duration_ms
         IN  /\ c.result[1].status = 200
             /\ ms.frac \in 0..999999
             /\ "eval_duration" \in DOMAIN reply
                  => ms.ms * 1000000 + ms.frac = reply.eval_duration
             /\ ("eval_duration" \in DOMAIN reply /\ reply.eval_duration = 2000000)
                  => ms.ms = 2 /\ ms.frac = 0
             /\ "eval_duration" \notin DOMAIN reply => ms.ms = 0 /\ ms.frac = 0

C12_Witness ==
  /\ call["simple"].pc = "done"
  /\ KindOf(call["simple"]) = "chat"
  /\ call["simple"].reply # None
  /\ ~BackendCallFailed(call["simple"].reply[1])
  /\ "eval_duration" \in DOMAIN call["simple"].reply[1].body[1]
  /\ call["simple"].reply[1].body[1].eval_duration = 1234567
  /\ call["simple"].result[1].val.eval_duration_ms = [ms |-> 1, frac |-> 234567]

\* C13: every successful generate or chat result handed to the caller
\* carries, next to the text or message, the model of the request and the
\* usage metrics eval_count and eval_duration_ms, on both servers.  (A
\* TextContent result holds the output text and nothing else.)
C13_ResultCarriesModelAndUsage ==
  \A s \in Servers :
    LET c == call[s]
    IN  (/\ c.pc = "done"
         /\ KindOf(c) \in {"generate", "chat"}
         /\ c.reply # None
         /\ ~BackendCallFailed(c.reply[1]))
        => LET res == c.result[1]
           IN  /\ res.kind = "http"
               /\ res.status = 200
               /\ {"model", "eval_count", "eval_duration_ms"} \subseteq DOMAIN res.val
               /\ res.val.model = Get(c.args, "model", DefaultModel)
               /\ res.val.eval_count = Get(c.reply[1].body[1], "eval_count", 0)

\* C14: when a generate call without context gets a backend reply with the
\* response text T, the text handed to the caller is T, whole and with
\* nothing around it, on both servers.
C14_ResponseTextVerbatim ==
  \A s \in Servers :
    LET c == call[s]
    IN  (/\ c.pc = "done"
         /\ KindOf(c) = "generate"
         /\ "context" \notin DOMAIN c.args
         /\ c.reply # None
         /\ ~BackendCallFailed(c.reply[1])
         /\ "response" \in DOMAIN c.reply[1].body[1])
        => LET T   == c.reply[1].body[1].response
               out == IF s = "mcp" THEN c.result[1].val ELSE c.result[1].val.text
           IN  /\ c.result[1].kind = (IF s = "mcp" THEN "text" ELSE "http")
               /\ s = "simple" => c.result[1].status = 200
               /\ Len(out) = Len(T)
               /\ \A i \in 1..Len(T) : out[i] = T[i]

C14_Witness ==
  \A s \in Servers :
    /\ call[s].pc = "done"
    /\ KindOf(call[s]) = "generate"
    /\ DOMAIN call[s].args = {"prompt"}
    /\ call[s].reply # None
    /\ ~BackendCallFailed(call[s].reply[1])
    /\ call[s].reply[1].body[1] = [response |-> <<"Graphs represent entities as nodes.">>]
    /\ (IF s = "mcp" THEN call[s].result[1].val ELSE call[s].result[1].val.text)
         = <<"Graphs represent entities as nodes.">>

\* C15: a system instruction is never merged into the prompt text: when
\* one is supplied (a non-empty text) the /api/generate body carries it
\* unchanged in its own system field, when none is supplied (absent or
\* empty) the body has no system field, and in both cases the prompt field
\* is what prompt and context alone give.
C15_SystemInstructionApart ==
  \A s \in Servers :
    LET c == call[s]
    IN  (/\ Active(c)
         /\ KindOf(c) = "generate"
         /\ Len(c.reqs) = 1)
        => LET body     == c.reqs[1].body
               P        == Get(c.args, "prompt", <<>>)
               C        == Get(c.args, "context", <<>>)
               supplied == "system_prompt" \in DOMAIN c.args
                             /\ Len(c.args.system_prompt) > 0
           IN  /\ supplied => /\ "system" \in DOMAIN body
                              /\ body.system = c.args.system_prompt
               /\ ~supplied => "system" \notin DOMAIN body
               /\ body.prompt = IF Len(C) > 0
                                  THEN <<"Context:\n">> \o C \o <<"\n\nQuestion: ">> \o P
                                  ELSE P

C15_Witness ==
  \A s \in Servers :
    /\ call[s].pc = "await"
    /\ KindOf(call[s]) = "generate"
    /\ DOMAIN call[s].args = {"prompt", "context", "system_prompt"}
    /\ call[s].args.system_prompt = <<"s">>
    /\ call[s].args.context = <<"k", "g">>
    /\ call[s].reqs[1].body.system = <<"s">>
    /\ call[s].reqs[1].body.prompt =
         <<"Context:\n", "k", "g", "\n\nQuestion: ", "q", "?">>

\* C16: the messages of the /api/chat body are the caller's messages: the
\* same number of them and, at every index, the same role and the same
\* content, on both servers.
C16_MessageOrderPreserved ==
  \A s \in Servers :
    LET c == call[s]
    IN  (/\ Active(c)
         /\ KindOf(c) = "chat"
         /\ "messages" \in DOMAIN c.args)
        => /\ Len(c.reqs) = 1
           /\ c.reqs[1].path = "/api/chat"
           /\ LET sent  == c.reqs[1].body.messages
                  given == c.args.messages
              IN  /\ Len(sent) = Len(given)
                  /\ \A i \in 1..Len(given) :
                       /\ sent[i].role = given[i].role
                       /\ sent[i].content = given[i].content

C16_Witness ==
  \A s \in Servers :
    /\ call[s].pc = "await"
    /\ KindOf(call[s]) = "chat"
    /\ "messages" \in DOMAIN call[s].args
    /\ call[s].args.messages =
         <<Msg(<<"system">>, <<"be brief">>), Msg(<<"user">>, <<"hi">>)>>
    /\ call[s].reqs[1].body.messages[1].role = <<"system">>
    /\ call[s].reqs[1].body.messages[2].role = <<"user">>

ClosedRoles == {<<"system">>, <<"user">>, <<"assistant">>}

\* C17: every message of an /api/chat body has a role among system, user
\* and assistant and a non-empty content; a chat request with another role
\* or an empty content sends nothing to the backend.
C17_OnlyValidMessagesForwarded ==
  \A s \in Servers :
    LET c == call[s]
    IN  (Active(c) /\ KindOf(c) = "chat")
        => \A q \in 1..Len(c.reqs) :
             \A i \in 1..Len(c.reqs[q].body.messages) :
               /\ c.reqs[q].body.messages[i].role \in ClosedRoles
               /\ Len(c.reqs[q].body.messages[i].content) > 0

\* C18: every /api/generate and /api/chat body has stream = false and
\* options.temperature equal to the request's temperature (0.7 when the
\* caller gave none), and has options.num_predict exactly when the caller
\* gave a positive max_tokens, which is then its value.
C18_RequestOptions ==
  \A s \in Servers :
    LET c == call[s]
    IN  (Active(c) /\ KindOf(c) \in {"generate", "chat"})
        => \A q \in 1..Len(c.reqs) :
             LET body     == c.reqs[q].body
                 positive == "max_tokens" \in DOMAIN c.args /\ c.args.max_tokens > 0
             IN  /\ body.stream = FALSE
                 /\ body.options.temperature =
                      Get(c.args, "temperature", DefaultTemperature)
                 /\ ("num_predict" \in DOMAIN body.options) <=> positive
                 /\ positive => body.options.num_predict = c.args.max_tokens

GetVersion == Request("GET", "/api/version", EmptyDict)

GetTags == Request("GET", "/api/tags", EmptyDict)

\* C19: at startup the health check is the first and only request to
\* /api/version and nothing is served before the probe is over; the model
\* list is requested, once, only after a health check that returned true;
\* after one that returned false the probe makes no further request, logs
\* a warning and goes on to serve.
C19_ProbeOrdering ==
  \A s \in Servers :
    LET p == phase[s]
    IN  /\ p.pc \in {"boot", "checked", "probed", "aborted"} => call[s].pc = "idle"
        /\ p.pc = "boot" => p.reqs = <<>>
        /\ p.pc = "checked" => p.reqs = <<GetVersion>>
        /\ p.pc \in {"probed", "aborted"} =>
             /\ p.health => p.reqs = <<GetVersion, GetTags>>
             /\ ~p.health => /\ p.reqs = <<GetVersion>>
                             /\ p.log = <<[level |-> "warning", count |-> 0]>>
                             /\ p.pc = "probed"

C19_Witness ==
  /\ phase["mcp"].pc = "probed"
  /\ ~phase["mcp"].health
  /\ phase["mcp"].reqs = <<GetVersion>>
  /\ phase["mcp"].log = <<[level |-> "warning", count |-> 0]>>
  /\ phase["simple"].pc = "probed"
  /\ phase["simple"].health
  /\ phase["simple"].reqs = <<GetVersion, GetTags>>
  /\ phase["simple"].log = <<[level |-> "info", count |-> 2]>>

\* what the caller gets out of a successful backend reply, by operation
ExpectedOutput(kind, reply) ==
  CASE kind = "generate" -> Get(reply, "response", <<>>)
    [] kind = "chat"     -> Get(Get(reply, "message", EmptyDict), "content", <<>>)
    [] kind = "models"   -> Len(Get(reply, "models", <<>>))
    [] kind = "health"   -> TRUE

\* what the handler's outcome holds in that place; a failure report holds
\* none of it
ActualOutput(s, c) ==
  LET res  == c.result[1]
      kind == KindOf(c)
  IN  CASE kind = "generate" -> IF s = "mcp" THEN res.val ELSE res.val.text
        [] kind = "chat"     -> IF s = "mcp" THEN res.val
                                ELSE Get(res.val.message, "content", <<>>)
        [] kind = "models"   -> IF c.handler = "handle_read_resource"
                                  THEN Len(res.val.models) ELSE res.val.count
        [] kind = "health"   -> IF s = "mcp" THEN res.val.healthy
                                ELSE res.val.ollama_connected

\* C20: a call's outcome is decided by its own inputs and by what the
\* backend answers to it, whatever happened before: whenever the backend
\* answers a call properly the call succeeds with the output of that
\* answer, also on a server whose startup health check or earlier calls
\* failed, and whenever the backend fails a generate or chat call that call
\* reports the failure, also on a server that never met a failure.
C20_StatelessRecovery ==
  \A s \in Servers :
    LET c == call[s]
    IN  (/\ c.pc = "done"
         /\ KindOf(c) \in {"generate", "chat", "models", "health"}
         /\ c.reply # None)
        => /\ ~BackendCallFailed(c.reply[1])
                => /\ c.result[1].kind \in {"text", "json", "http"}
                   /\ c.result[1].kind = "http" => c.result[1].status = 200
                   /\ ActualOutput(s, c) = ExpectedOutput(KindOf(c), c.reply[1].body[1])
           /\ (BackendCallFailed(c.reply[1]) /\ KindOf(c) \in {"generate", "chat"})
                => ReportsFailure(s, c)

C20_Witness ==
  \A s \in Servers :
    /\ troubled[s]
    /\ call[s].pc = "done"
    /\ KindOf(call[s]) = "generate"
    /\ call[s].reply # None
    /\ ~BackendCallFailed(call[s].reply[1])
    /\ "response" \in DOMAIN call[s].reply[1].body[1]
    /\ call[s].reply[1].body[1].response = <<"ok">>
    /\ ActualOutput(s, call[s]) = <<"ok">>

\* the first part of the handler behind invocation c, up to its await
HandlerBegin(c) ==
  CASE c.handler = "handle_call_tool" -> mcp_handle_call_tool_begin(c.name, c.args)
    [] c.handler = "generate_text"    -> simple_generate_text_begin(c.args)
    [] c.handler = "chat_completion"  -> simple_chat_completion_begin(c.args)

\* C21: among the generate and chat invocations a server has in flight side
\* by side, each one has sent exactly the request its own arguments make,
\* and each one that has finished returns what its handler makes of the
\* backend's answer to its own request, in whatever order the answers came.
C21_ConcurrentCallsIndependent ==
  \A s \in Servers : \A t \in Slots :
    LET c == inflight[s][t]
    IN  (Active(c) /\ KindOf(c) \in {"generate", "chat"})
          => /\ c.reqs = <<HandlerBegin(c).req>>
             /\ c.pc = "done" => c.result = Some(HandlerEnd(c, c.reply[1]))

\* two invocations of one server were in flight together with different
\* arguments; the backend failed the one and answered the other
C21_Witness ==
  \E s \in Servers : \E t \in Slots : \E u \in Slots \ {t} :
    /\ inflight[s][t].pc = "done"
    /\ inflight[s][u].pc = "done"
    /\ inflight[s][t].args # inflight[s][u].args
    /\ KindOf(inflight[s][t]) = "generate"
    /\ KindOf(inflight[s][u]) \in {"generate", "chat"}
    /\ BackendCallFailed(inflight[s][t].reply[1])
    /\ ~BackendCallFailed(inflight[s][u].reply[1])
    /\ inflight[s][t].reqs # inflight[s][u].reqs

\* the model descriptors in a backend answer to GET /api/tags
ModelsOfReply(r) == Get(r.body[1], "models", <<>>)

\* the entries a finished discovery invocation reports, and its count where
\* the operation gives one
ReportedModels(c) ==
  CASE c.handler = "handle_call_tool"     -> c.result[1].val.available_models
    [] c.handler = "handle_read_resource" -> c.result[1].val.models
    [] c.handler = "list_models"          -> c.result[1].val.models

\* the model name that entry e of a discovery report carries, if any
ReportedName(c, e) ==
  CASE c.handler = "handle_call_tool"     -> Some(e)
    [] c.handler = "handle_read_resource" -> GetOpt(e, "name")
    [] c.handler = "list_models"          -> e

\* C22: a discovery invocation (tool list_models, resource
\* generation://models, GET /models) sends one GET /api/tags and nothing
\* else; when the backend answers it properly, it reports one entry per
\* model of that answer, in order and under the model's name, so a changed
\* inventory shows in the next call; a reported count is the number of
\* entries reported.
C22_DiscoveryIsLive ==
  \A s \in Servers :
    LET c == call[s]
    IN  (Active(c) /\ KindOf(c) = "models")
          => /\ c.reqs = <<Request("GET", "/api/tags", EmptyDict)>>
             /\ (c.pc = "done" /\ ~BackendCallFailed(c.reply[1])) =>
                  LET listed   == ModelsOfReply(c.reply[1])
                      reported == ReportedModels(c)
                  IN  /\ c.result[1].kind \in {"json", "http"}
                      /\ Len(reported) = Len(listed)
                      /\ \A i \in 1..Len(listed) :
                           "name" \in DOMAIN listed[i]
                             => ReportedName(c, reported[i]) = Some(listed[i].name)
                      /\ c.handler = "handle_read_resource" => reported = listed
                      /\ "count" \in DOMAIN c.result[1].val
                           => c.result[1].val.count = Len(reported)

\* the same discovery request was put to both servers and the backend's
\* inventory changed between its two answers: the one reports no model,
\* the other the two models the backend holds by then
C22_Witness ==
  /\ call["mcp"].pc = "done"
  /\ call["simple"].pc = "done"
  /\ KindOf(call["mcp"]) = "models"
  /\ KindOf(call["simple"]) = "models"
  /\ ~BackendCallFailed(call["mcp"].reply[1])
  /\ ~BackendCallFailed(call["simple"].reply[1])
  /\ ModelsOfReply(call["mcp"].reply[1]) = <<>>
  /\ ReportedModels(call["mcp"]) = <<>>
  /\ ModelsOfReply(call["simple"].reply[1]) = <<ModelA, ModelB>>
  /\ call["simple"].result[1].val.count = 2
  /\ backend.models = <<ModelA, ModelB>>

KnownTools == {"generate_text", "chat_completion", "list_models"}

KnownResources == {"generation://models", "generation://health"}

\* C23: on the tool-style server, a call of a tool it does not know and a
\* read of a resource it does not know end at once by raising ValueError:
\* no request goes to the backend, and the outcome is a raised error, not a
\* text result as for a failed backend call.
C23_UnknownNameRaises ==
  LET c == call["mcp"]
  IN  (/\ Active(c)
       /\ \/ c.handler = "handle_call_tool" /\ c.name \notin KnownTools
          \/ c.handler = "handle_read_resource" /\ c.name \notin KnownResources)
      => /\ c.pc = "done"
         /\ c.reqs = <<>>
         /\ c.reply = None
         /\ c.result[1].kind = "raise"
         /\ c.result[1].val.type = "ValueError"

\* the tool delete_model, which the server does not have, was called while
\* the backend was down
C23_Witness ==
  /\ call["mcp"].pc = "done"
  /\ call["mcp"].handler = "handle_call_tool"
  /\ call["mcp"].name = "delete_model"
  /\ call["mcp"].result[1].kind = "raise"
  /\ call["mcp"].result[1].val.msg = <<"Unknown tool: ", "delete_model">>
  /\ backend.mode = "refused"

====
